---- MODULE Spec2Model ----
(***************************************************************************)
(* Storage telemetry of rrlist: the process-wide capacity cache, the       *)
(* background refresh job (three module copies of runStorageCheckJob that  *)
(* share their state through `global`), the subscriber set of the SSE      *)
(* endpoint and the start-up initialisation.                               *)
(*                                                                         *)
(* The program runs on one JavaScript event loop.  An action is one        *)
(* macrotask together with the chain of promise continuations it resolves: *)
(* a request handler up to its first await, a timer callback, or the       *)
(* arrival of one daemon reply with everything that runs synchronously     *)
(* after it.                                                               *)
(***************************************************************************)
EXTENDS Integers, Sequences, FiniteSets, TLC

\* ------------------------------------------------------------------ bounds
MaxList == 1          \* longest remote list the daemon returns under Spec
MaxConns == 1         \* stream connections alive at the same time under Spec
MaxDataList == 1      \* longest remote list under DataSpec
MaxTime == 1          \* last reading of the clock (Date.now()), DataSpec and SnapSpec
MaxBatchList == 6     \* longest remote list under BatchSpec
MaxHubConns == 3      \* stream connections alive at the same time under HubSpec
MaxJobs == 2          \* activations of runStorageCheckJob held in the state
MaxTimers == 3        \* timeout objects told apart
MaxSnapList == 2      \* longest remote list under SnapSpec
MaxPublishes == 2     \* notifications a watched stream records
MaxOrderConns == 1    \* connections whose streams are watched under OrderSpec
MaxRemotesList == 2   \* longest remote list under ListingSpec
MaxFairConns == 2     \* stream connections alive at the same time under FairHubSpec

\* ------------------------------------------------------ program constants
concurrentLimit == 5
maxRetries == 6

STORAGE_CHECK_INTERVAL == 300000

Copies == {"storage", "stream", "lib"}

\* setTimeout delay (ms) with which each copy of runStorageCheckJob re-arms
Interval(copy) == IF copy = "stream" THEN 60000 ELSE 300000

\* ------------------------------------------------------------ JS values
undefinedNum == -1
undefinedStr == "undefined"
NullTimer == 0

Min(a, b) == IF a < b THEN a ELSE b

RemoteList(n) == [k \in 1..n |-> k]

EmptyMap == [k \in {} |-> 0]

SeqSet(s) == {s[k] : k \in 1..Len(s)}

\* ------------------------------------------------------ daemon replies
\* operations/about: a 200 body, a non-2xx status with an error body, or no
\* reply before the 10 s abort.
OkReplies ==
  { [kind |-> "ok", total |-> 2, used |-> 1, free |-> 1],
    [kind |-> "ok", total |-> 2, used |-> 1, free |-> 0],
    [kind |-> "ok", total |-> 2, used |-> 2, free |-> 0],
    [kind |-> "ok", total |-> undefinedNum, used |-> 1, free |-> undefinedNum] }

ErrReplies ==
  { [kind |-> "http", body |-> "invalid_grant"],
    [kind |-> "timeout"] }

AboutReplies == OkReplies \cup ErrReplies

PlainReplies ==
  { [kind |-> "ok", total |-> 2, used |-> 1, free |-> 1],
    [kind |-> "timeout"] }

\* config/listremotes: ListFailed is a failed call, ListMalformed a 200 body
\* whose `remotes` is no array, n >= 0 a list of n remotes
ListFailed == -1
ListMalformed == -2
ListReplies(n) == {ListFailed, ListMalformed} \cup (0..n)

\* a `remotes` value that has no length and cannot be spread
NotIterable == <<0>>

\* ----------------------------------------------------------- the user store
\* A password is a string; a request that leaves one out carries "".
Passwords == {"", "short", "password-1", "password-2"}

\* bcryptjs.hash and bcryptjs.compare: the hash tells passwords apart and is
\* no password itself
hash(password) == <<"bcrypt", password>>
compare(password, hashed) == hashed = hash(password)

\* The password the container's first start prints for the admin.
adminPassword == "password-1"

\* The row the first start creates; isActive takes its default.
SeededAdmin ==
  [password |-> hash(adminPassword), isActive |-> TRUE,
   isFirstLogin |-> TRUE, mustChangePassword |-> TRUE]

\* The rows the table can hold for the user: the flags are columns anyone with
\* the database can set.
UserRows ==
  [password : {hash(adminPassword)}, isActive : BOOLEAN,
   isFirstLogin : BOOLEAN, mustChangePassword : BOOLEAN]

\* --------------------------------------------------------------- state
VARIABLES
  storageCache,          \* global.storageCache: remote -> StorageData
  storageSubscribers,    \* global.storageSubscribers, in insertion order
  backgroundJobRunning,  \* global.backgroundJobRunning
  backgroundJobTimer,    \* global.backgroundJobTimer: NullTimer or a timer id
  backgroundJobInitialized, \* global.backgroundJobInitialized
  timers,                \* pending timeouts: timer id -> copy whose job it calls
  jobs,                  \* activations of runStorageCheckJob past the guard
  conns,                 \* stream connections
  init,                  \* position of initializeBackgroundJob
  sinks,                 \* the update events on the streams that are watched
  user,                  \* the row of the user table
  sessionToken,          \* the next-auth.session-token cookie, None if signed out
  sessionChanged,        \* the session of the cookie has changed the password
  last                   \* what the latest step did

vars == <<storageCache, storageSubscribers, backgroundJobRunning,
          backgroundJobTimer, backgroundJobInitialized, timers, jobs,
          conns, init, sinks, user, sessionToken, sessionChanged,
          last>>

schedVars == <<backgroundJobRunning, backgroundJobTimer, timers, jobs>>
hubVars == <<storageSubscribers, conns>>
initVars == <<backgroundJobInitialized, init>>
authVars == <<user, sessionToken, sessionChanged>>

ConnIds == DOMAIN conns

NoConn == [open |-> FALSE, sinkOpen |-> FALSE, heartbeat |-> FALSE]

None == [none |-> TRUE]

\* No response stream is watched.
Unwatched == [on |-> FALSE, published |-> 0, queue |-> EmptyMap, seen |-> EmptyMap]

\* The record of a step; `op` tells the steps of a daemon reply, "ListReply"
\* and "ProbeReply", from every "other":
\*   call       what its call of runStorageCheckJob did: "started", "refused",
\*              or "none" when it made no call
\*   cancelled  its clearTimeout hit a pending timeout
\*   threw      the try block of runStorageCheckJob threw
\*   remote, old, result, changed   the merge of a probe result: the remote,
\*              the record stored before (None if none), the probe's record,
\*              hasChanged
\*   listed     the remote list of the cycle that merged
\*   count, targets, delivered      its notifySubscribers calls, the set when
\*              the call began, the connections sent the snapshot, in order
\*   conn, event                    the stream connection whose handler ran
\*              (0 if none) and the event the handler itself enqueued on it
\*   req, session, response         the HTTP request the step handled ("none"
\*              if it was no request handler), whether it came with a
\*              session, and the response it returned
\*   reply      the daemon's answer to the one call a health-check or
\*              reconnect request made (None if it made none)
\*   attempts, replies   the number of daemon calls a listing request made
\*              and the daemon's answers to them, in order
\*   configs    the daemon's answers to the config/get calls of a remote
\*              listing, in the order of the remotes
\*   path, token   the path of a page request and the token it came with
Step(op) ==
  [op |-> op, call |-> "none", cancelled |-> FALSE, threw |-> FALSE,
   remote |-> 0, listed |-> <<>>, old |-> None, result |-> None,
   changed |-> FALSE,
   count |-> 0, targets |-> <<>>, delivered |-> <<>>,
   conn |-> 0, event |-> None, req |-> "none", session |-> FALSE,
   response |-> None, reply |-> None, attempts |-> 0, replies |-> <<>>,
   configs |-> <<>>, path |-> <<>>, token |-> None]

InitWith(nconns) ==
  /\ storageCache = EmptyMap
  /\ storageSubscribers = <<>>
  /\ backgroundJobRunning = FALSE
  /\ backgroundJobTimer = NullTimer
  /\ backgroundJobInitialized = FALSE
  /\ timers = EmptyMap
  /\ jobs = <<>>
  /\ conns = [c \in 1..nconns |-> NoConn]
  /\ init = [pc |-> "unloaded", retryCount |-> 0]
  /\ sinks = Unwatched
  /\ user = SeededAdmin
  /\ sessionToken = None
  /\ sessionChanged = FALSE
  /\ last = Step("other")

\* ------------------------------------------------------- capacity prober
\* The message of the Error that checkRemoteStorage catches.
ErrorMessage(reply) ==
  IF reply.kind = "http" THEN "API error: 500 - " \o reply.body
  ELSE "This operation was aborted"

\* checkRemoteStorage: the record one probe returns, stamped at completion.
checkRemoteStorage(reply, t) ==
  IF reply.kind = "ok"
    THEN [total |-> reply.total, used |-> reply.used, free |-> reply.free,
          lastUpdated |-> t, error |-> undefinedStr]
    ELSE [total |-> undefinedNum, used |-> undefinedNum, free |-> undefinedNum,
          lastUpdated |-> t, error |-> ErrorMessage(reply)]

\* Date.now(): the clock never runs backwards, so a reading is not below any
\* reading that is still on record.
Clock(cache) == {t \in 0..MaxTime : \A r \in DOMAIN cache : cache[r].lastUpdated <= t}

\* (variant) a failed call falls back to the remote probed before
getRemotesListFallback(reply) ==
  IF reply = ListFailed THEN RemoteList(1)
  ELSE IF reply = ListMalformed THEN NotIterable
  ELSE RemoteList(reply)

\* getRemotesList: a failed call is caught and gives the empty list;
\* otherwise `data.remotes || []`.
getRemotesList(reply) ==
  IF reply = ListFailed THEN <<>>
  ELSE IF reply = ListMalformed THEN NotIterable
  ELSE RemoteList(reply)

\* ------------------------------------------------------------- the merge
\* (variant) free is compared as well
hasChangedWithFree(cache, remote, result) ==
  \/ remote \notin DOMAIN cache
  \/ cache[remote].total # result.total
  \/ cache[remote].used # result.used
  \/ cache[remote].free # result.free
  \/ cache[remote].error # result.error

\* hasChanged of the batch callback: no stored record, or total, used or
\* error differ.
hasChanged(cache, remote, result) ==
  \/ remote \notin DOMAIN cache
  \/ cache[remote].total # result.total
  \/ cache[remote].used # result.used
  \/ cache[remote].error # result.error

\* (variant) the cache object is replaced by one that holds the result
CacheSetAlone(cache, remote, result) == [k \in {remote} |-> result]

\* (variant) a failed probe does not overwrite a stored record
CacheSetKeepGood(cache, remote, result) ==
  IF result.error # undefinedStr /\ remote \in DOMAIN cache
    THEN cache
    ELSE [k \in DOMAIN cache \cup {remote} |-> IF k = remote THEN result ELSE cache[k]]

\* (variant) the result is spread over the stored record: fields the result
\* leaves undefined keep their stored value
CacheSetSpread(cache, remote, result) ==
  LET old == IF remote \in DOMAIN cache THEN cache[remote] ELSE result
      new == [total |-> IF result.total = undefinedNum THEN old.total ELSE result.total,
              used |-> IF result.used = undefinedNum THEN old.used ELSE result.used,
              free |-> IF result.free = undefinedNum THEN old.free ELSE result.free,
              lastUpdated |-> result.lastUpdated,
              error |-> result.error]
  IN [k \in DOMAIN cache \cup {remote} |-> IF k = remote THEN new ELSE cache[k]]

\* global.storageCache[remote] = result
CacheSet(cache, remote, result) ==
  [k \in DOMAIN cache \cup {remote} |-> IF k = remote THEN result ELSE cache[k]]

\* (variant) the result is stored whether or not it differs
MergeCacheAlways(cache, remote, result) == CacheSet(cache, remote, result)

\* the cache after the callback of one probe
MergeCache(cache, remote, result) ==
  IF hasChanged(cache, remote, result) THEN CacheSet(cache, remote, result)
  ELSE cache

\* (variant) hasUpdates is assigned, not accumulated
MergeHasUpdatesLast(hasUpdates, changed) == changed

\* hasUpdates after the callback of one probe
MergeHasUpdates(hasUpdates, changed) == IF changed THEN TRUE ELSE hasUpdates

\* ------------------------------------------------------------ the hub
\* (variant) an array: the entries after the deleted one move up
SetDeleteSplice(subs, k) == SubSeq(subs, 1, k - 1) \o SubSeq(subs, k + 1, Len(subs))

\* Set.prototype.delete while forEach runs: the entry is emptied in place,
\* the entries after it keep their position.
Deleted == 0

SetDelete(subs, k) == [subs EXCEPT ![k] = Deleted]

Compact(subs) == SelectSeq(subs, LAMBDA c : c # Deleted)

\* handleStorageUpdate of connection c: enqueue throws on a closed sink
PushFails(cs, c) == ~cs[c].sinkOpen

\* notifySubscribers: forEach over the set, from entry k on.  The result is
\* the set as it stands after the loop and the connections that were sent
\* the snapshot, in the order of sending.
RECURSIVE ForEachFrom(_, _, _, _)
ForEachFrom(subs, cs, k, delivered) ==
  IF k > Len(subs) THEN [subs |-> subs, delivered |-> delivered]
  ELSE IF subs[k] = Deleted THEN ForEachFrom(subs, cs, k + 1, delivered)
  ELSE IF PushFails(cs, subs[k])
    THEN ForEachFrom(SetDelete(subs, k), cs, k + 1, delivered)
    ELSE ForEachFrom(subs, cs, k + 1, Append(delivered, subs[k]))

notifySubscribers(subs, cs) ==
  LET r == ForEachFrom(subs, cs, 1, <<>>)
  IN [subs |-> Compact(r.subs), targets |-> subs, delivered |-> r.delivered]

\* (variant) the chunk goes to the head of the stream's queue
EnqueueFront(queue, chunk) == <<chunk>> \o queue

\* controller.enqueue(chunk): the chunk goes to the end of the stream's queue
Enqueue(queue, chunk) == Append(queue, chunk)

\* The watched streams after a notifySubscribers call whose callbacks
\* enqueued an update event on the streams of `delivered`.  A watched
\* stream holds, for each of the first MaxPublishes calls that reached it,
\* the number of the call.
Published(w, delivered) ==
  IF ~w.on \/ w.published = MaxPublishes THEN w
  ELSE LET n == w.published + 1
       IN [w EXCEPT
             !.published = n,
             !.queue = [c \in DOMAIN w.queue |->
                          IF c \in SeqSet(delivered)
                            THEN Enqueue(w.queue[c], n) ELSE w.queue[c]]]

\* The watched streams after `new ReadableStream` for connection c.
Opened(w, c) ==
  IF c \in DOMAIN w.queue THEN [w EXCEPT !.queue[c] = <<>>] ELSE w

\* The watched streams after an event with the data `cache` was enqueued on
\* the streams of `delivered`: `seen` is the data of the latest such event
\* of each watched stream.
Sent(w, delivered, cache) ==
  [w EXCEPT !.seen = [c \in DOMAIN w.seen |->
                        IF c \in SeqSet(delivered) THEN cache ELSE w.seen[c]]]

\* ------------------------------------------------------------- timers
\* clearTimeout(h): a fired or cleared handle is left alone
clearTimeout(ts, h) == [k \in DOMAIN ts \ {h} |-> ts[k]]

\* the timeout object a setTimeout call returns: none that is pending
FreeTimers(ts) == (1..MaxTimers) \ DOMAIN ts

NewTimer(ts) == CHOOSE t \in FreeTimers(ts) : \A u \in FreeTimers(ts) : t <= u

setTimeout(ts, t, copy) == [k \in DOMAIN ts \cup {t} |-> IF k = t THEN copy ELSE ts[k]]

\* (variant) the handle is overwritten without clearTimeout
ClearPendingNever(ts, h) == ts

\* `if (global.backgroundJobTimer) clearTimeout(global.backgroundJobTimer)`
ClearPending(ts, h) == IF h # NullTimer THEN clearTimeout(ts, h) ELSE ts

\* ---------------------------------------------------------- the scheduler
NewJob(copy) ==
  [copy |-> copy, pc |-> "list", remotes |-> <<>>, remotesToCheck |-> <<>>,
   issued |-> <<>>, inflight |-> {}, failed |-> {},
   hasUpdates |-> FALSE, anyChanged |-> FALSE]

\* (variant) no guard
AlreadyRunningNever == FALSE

\* the guard at the head of runStorageCheckJob
AlreadyRunning == backgroundJobRunning

\* runStorageCheckJob up to its first await: check and set of the flag, then
\* the list-remotes call is in flight.
runStorageCheckJob(copy) ==
  IF AlreadyRunning
    THEN UNCHANGED <<backgroundJobRunning, jobs>>
    ELSE /\ Len(jobs) < MaxJobs
         /\ backgroundJobRunning' = TRUE
         /\ jobs' = Append(jobs, NewJob(copy))

Called == IF AlreadyRunning THEN "refused" ELSE "started"

\* (variant) a job is started whenever none is running
NotArmedOrIdle == backgroundJobTimer = NullTimer \/ ~backgroundJobRunning

\* `if (!global.backgroundJobTimer)` of startBackgroundJob
NotArmed == backgroundJobTimer = NullTimer

\* startBackgroundJob: only a falsy timer handle starts a job
startBackgroundJob(copy) ==
  IF NotArmed
    THEN runStorageCheckJob(copy)
    ELSE UNCHANGED <<backgroundJobRunning, jobs>>

LazyCalled == IF NotArmed THEN Called ELSE "none"

\* (variant) every remaining remote is probed at once
StartBatchAll(j) ==
  [j EXCEPT !.pc = "batch",
            !.remotesToCheck = <<>>,
            !.issued = j.issued \o j.remotesToCheck,
            !.inflight = SeqSet(j.remotesToCheck)]

\* (variant) a batch also probes again the remotes whose probe has failed
StartBatchRetry(j) ==
  LET n == Min(concurrentLimit, Len(j.remotesToCheck))
      batch == SelectSeq(j.issued, LAMBDA r : r \in j.failed)
                 \o SubSeq(j.remotesToCheck, 1, n)
  IN [j EXCEPT !.pc = "batch",
               !.remotesToCheck = SubSeq(j.remotesToCheck, n + 1, Len(j.remotesToCheck)),
               !.issued = j.issued \o batch,
               !.inflight = SeqSet(batch)]

\* `remotesToCheck.splice(0, concurrentLimit)` and the start of its probes
StartBatch(j) ==
  LET n == Min(concurrentLimit, Len(j.remotesToCheck))
      batch == SubSeq(j.remotesToCheck, 1, n)
  IN [j EXCEPT !.pc = "batch",
               !.remotesToCheck = SubSeq(j.remotesToCheck, n + 1, Len(j.remotesToCheck)),
               !.issued = j.issued \o batch,
               !.inflight = SeqSet(batch)]

RemoveAt(s, i) == SubSeq(s, 1, i - 1) \o SubSeq(s, i + 1, Len(s))

\* (variant) nobody is notified
ShouldNotifyNever(j) == FALSE

\* `if (hasUpdates) notifySubscribers()`
ShouldNotify(j) == j.hasUpdates

\* (variant) the finally block arms no timeout
RearmNever(ts, h, copy) == ClearPending(ts, h)

\* (variant) a handle that is null is left null
RearmIfHandle(ts, h, copy) ==
  LET cleared == ClearPending(ts, h)
  IN IF h # NullTimer THEN setTimeout(cleared, NewTimer(cleared), copy) ELSE cleared

\* the timeouts after the finally block of a job of `copy`
Rearm(ts, h, copy) ==
  LET cleared == ClearPending(ts, h)
  IN setTimeout(cleared, NewTimer(cleared), copy)

\* The end of activation i, whose record is j by now: the notification after
\* the loop when `looped`, then the finally block.  `step` is the record of
\* the step so far.
Finish(i, j, looped, step) ==
  LET pub == notifySubscribers(storageSubscribers, conns)
      notify == looped /\ ShouldNotify(j)
      cleared == ClearPending(timers, backgroundJobTimer)
  IN /\ FreeTimers(cleared) # {}
     /\ storageSubscribers' = IF notify THEN pub.subs ELSE storageSubscribers
     /\ jobs' = RemoveAt(jobs, i)
     /\ backgroundJobRunning' = FALSE
     /\ timers' = Rearm(timers, backgroundJobTimer, j.copy)
     /\ backgroundJobTimer' = NewTimer(cleared)
     /\ last' = [step EXCEPT
                   !.cancelled = backgroundJobTimer \in DOMAIN timers,
                   !.count = IF notify THEN 1 ELSE 0,
                   !.targets = IF notify THEN pub.targets ELSE <<>>,
                   !.delivered = IF notify THEN pub.delivered ELSE <<>>]
     /\ sinks' = IF notify
                  THEN Sent(Published(sinks, pub.delivered), pub.delivered,
                            storageCache')
                  ELSE sinks
     /\ UNCHANGED conns

\* The reply to config/listremotes reaches activation i.  An empty list
\* returns from the try block; `[...remotes]` of a value that is no array
\* throws into the catch block; both go on to the finally block.
ListReply(i, reply) ==
  /\ i \in 1..Len(jobs)
  /\ jobs[i].pc = "list"
  /\ LET remotes == getRemotesList(reply)
         j == [jobs[i] EXCEPT !.remotes = remotes, !.remotesToCheck = remotes]
     IN IF remotes = NotIterable
          THEN Finish(i, jobs[i], FALSE, [Step("ListReply") EXCEPT !.threw = TRUE])
        ELSE IF Len(remotes) = 0
          THEN Finish(i, j, FALSE, Step("ListReply"))
          ELSE /\ jobs' = [jobs EXCEPT ![i] = StartBatch(j)]
               /\ last' = Step("ListReply")
               /\ UNCHANGED <<backgroundJobRunning, backgroundJobTimer, timers,
                              hubVars, sinks>>
  /\ UNCHANGED <<authVars, storageCache, initVars>>

\* The probe of `remote` by activation i completes with `reply` at time
\* `now`: the batch callback merges it; the last one of a batch resumes the
\* loop.
ProbeReply(i, remote, reply, now) ==
  /\ i \in 1..Len(jobs)
  /\ jobs[i].pc = "batch"
  /\ remote \in jobs[i].inflight
  /\ now \in Clock(storageCache)
  /\ LET result == checkRemoteStorage(reply, now)
         changed == hasChanged(storageCache, remote, result)
         j == [jobs[i] EXCEPT
                 !.inflight = @ \ {remote},
                 !.failed = IF reply.kind = "ok" THEN @ ELSE @ \cup {remote},
                 !.hasUpdates = MergeHasUpdates(@, changed),
                 !.anyChanged = @ \/ changed]
         step == [Step("ProbeReply") EXCEPT
                    !.remote = remote,
                    !.listed = jobs[i].remotes,
                    !.old = IF remote \in DOMAIN storageCache
                              THEN storageCache[remote] ELSE None,
                    !.result = result,
                    !.changed = changed]
     IN /\ storageCache' = MergeCache(storageCache, remote, result)
        /\ IF j.inflight # {}
             THEN /\ jobs' = [jobs EXCEPT ![i] = j]
                  /\ last' = step
                  /\ UNCHANGED <<backgroundJobRunning, backgroundJobTimer, timers,
                                 hubVars, sinks>>
           ELSE IF Len(j.remotesToCheck) > 0
             THEN /\ jobs' = [jobs EXCEPT ![i] = StartBatch(j)]
                  /\ last' = step
                  /\ UNCHANGED <<backgroundJobRunning, backgroundJobTimer, timers,
                                 hubVars, sinks>>
           ELSE Finish(i, j, TRUE, step)
  /\ UNCHANGED <<initVars, authVars>>

\* A pending timeout fires and calls the runStorageCheckJob of its copy.
TimerFire(t) ==
  /\ t \in DOMAIN timers
  /\ timers' = [k \in DOMAIN timers \ {t} |-> timers[k]]
  /\ runStorageCheckJob(timers[t])
  /\ last' = [Step("other") EXCEPT !.call = Called]
  /\ UNCHANGED <<authVars, storageCache, backgroundJobTimer, hubVars, initVars, sinks>>

\* JS null
Null == -1

\* Math.min(...Object.values(cache).map(d => d.lastUpdated)) of a cache that
\* has entries
MinLastUpdated(cache) ==
  CHOOSE t \in {cache[r].lastUpdated : r \in DOMAIN cache} :
    \A r \in DOMAIN cache : t <= cache[r].lastUpdated

\* (variant) the newest stamp
SnapshotResponseMax(cache) ==
  [status |-> 200, success |-> TRUE, data |-> cache,
   lastUpdated |-> IF DOMAIN cache # {}
                     THEN CHOOSE t \in {cache[r].lastUpdated : r \in DOMAIN cache} :
                            \A r \in DOMAIN cache : t >= cache[r].lastUpdated
                     ELSE Null]

\* the body of the snapshot GET
SnapshotResponse(cache) ==
  [status |-> 200, success |-> TRUE, data |-> cache,
   lastUpdated |-> IF DOMAIN cache # {} THEN MinLastUpdated(cache) ELSE Null]

\* the acknowledgement of the manual refresh
RefreshResponse == [status |-> 200, success |-> TRUE]

\* the rejection of the stream GET
Unauthorized == [status |-> 401]

\* the event stream returned by the stream GET
StreamResponse == [status |-> 200, stream |-> TRUE]

\* --------------------------------------------------------- the middleware
\* A request path, as the pieces of its string: the slashes and the names
\* between them.  No piece begins another, so that a path begins with a string
\* exactly when its pieces begin with the string's.
ApiStorage == <<"/", "api", "/", "rclone", "/", "storage">>

\* String.startsWith
IsPrefix(p, path) == Len(p) <= Len(path) /\ SubSeq(path, 1, Len(p)) = p

\* config.matcher: the middleware runs on every path but those that begin,
\* after the first slash, with api, _next/static, _next/image or favicon.ico
matcher(path) ==
  /\ IsPrefix(<<"/">>, path)
  /\ \A p \in {<<"/", "api">>, <<"/", "_next", "/", "static">>,
               <<"/", "_next", "/", "image">>, <<"/", "favicon.ico">>} :
       ~IsPrefix(p, path)

\* callbacks.authorized: the login page is open, everything else needs a
\* token; `token` is !!token
authorized(path, token) ==
  IF IsPrefix(<<"/", "auth", "/", "login">>, path) THEN TRUE ELSE token

\* The request reaches its route handler: withAuth turns away a request the
\* middleware runs on and does not authorize.
Admitted(path, session) == matcher(path) => authorized(path, session)

\* GET /api/rclone/storage; the handler takes no request and asks for no
\* session
SnapshotGET(session) ==
  /\ Admitted(ApiStorage, session)
  /\ startBackgroundJob("storage")
  /\ last' = [Step("other") EXCEPT
                !.call = LazyCalled,
                !.req = "GET storage",
                !.session = session,
                !.response = SnapshotResponse(storageCache)]
  /\ UNCHANGED <<authVars, storageCache, backgroundJobTimer, timers, hubVars, initVars, sinks>>

\* (variant) the refresh is left to the pending timer
RefreshPOSTDeferred(session) ==
  /\ Admitted(ApiStorage, session)
  /\ last' = [Step("other") EXCEPT
                !.req = "POST storage", !.session = session,
                !.response = RefreshResponse]
  /\ UNCHANGED <<authVars, storageCache, schedVars, hubVars, initVars, sinks>>

\* (variant) the handle is left as it is
RefreshPOSTKeepsHandle(session) ==
  /\ Admitted(ApiStorage, session)
  /\ timers' = ClearPending(timers, backgroundJobTimer)
  /\ backgroundJobTimer' = backgroundJobTimer
  /\ runStorageCheckJob("storage")
  /\ last' = [Step("other") EXCEPT
                !.call = Called,
                !.cancelled = backgroundJobTimer \in DOMAIN timers,
                !.req = "POST storage",
                !.session = session,
                !.response = RefreshResponse]
  /\ UNCHANGED <<authVars, storageCache, hubVars, initVars, sinks>>

\* POST /api/rclone/storage; no session is asked for either
RefreshPOST(session) ==
  /\ Admitted(ApiStorage, session)
  /\ timers' = ClearPending(timers, backgroundJobTimer)
  /\ backgroundJobTimer' = NullTimer
  /\ runStorageCheckJob("storage")
  /\ last' = [Step("other") EXCEPT
                !.call = Called,
                !.cancelled = backgroundJobTimer \in DOMAIN timers,
                !.req = "POST storage",
                !.session = session,
                !.response = RefreshResponse]
  /\ UNCHANGED <<authVars, storageCache, hubVars, initVars, sinks>>

\* ------------------------------------------------------ stream connections
FreeConns == {c \in ConnIds : conns[c] = NoConn /\ c \notin SeqSet(storageSubscribers)}

\* Set.prototype.delete outside an iteration
Unsubscribe(subs, c) == SelectSeq(subs, LAMBDA d : d # c)

\* (variant) the first event carries no data
InitialEventEmpty(cache) == [type |-> "initial", data |-> EmptyMap]

\* the first event start() enqueues: the cache as it is at that moment
InitialEvent(cache) == [type |-> "initial", data |-> cache]

\* the event of the 30 s interval
HeartbeatEvent == [type |-> "heartbeat"]

\* (variant) the session is not looked at
NoSessionNever(session) == FALSE

\* `if (!session)` after getServerSession
NoSession(session) == ~session

\* GET /api/rclone/storage/stream: 401 without a session; otherwise the lazy
\* start, the stream's start(): initial snapshot, subscription, heartbeat.
StreamGET(session) ==
  IF NoSession(session)
    THEN /\ last' = [Step("other") EXCEPT
                       !.req = "GET stream", !.session = session,
                       !.response = Unauthorized]
         /\ UNCHANGED <<authVars, storageCache, schedVars, hubVars, initVars, sinks>>
    ELSE /\ FreeConns # {}
         /\ LET c == CHOOSE d \in FreeConns : \A e \in FreeConns : d <= e
            IN /\ conns' = [conns EXCEPT ![c] =
                              [open |-> TRUE, sinkOpen |-> TRUE, heartbeat |-> TRUE]]
               /\ storageSubscribers' = Append(storageSubscribers, c)
               /\ last' = [Step("other") EXCEPT
                             !.call = LazyCalled,
                             !.conn = c,
                             !.event = InitialEvent(storageCache),
                             !.req = "GET stream",
                             !.session = session,
                             !.response = StreamResponse]
               /\ sinks' = Sent(Opened(sinks, c), <<c>>,
                                 InitialEvent(storageCache).data)
         /\ startBackgroundJob("stream")
         /\ UNCHANGED <<authVars, storageCache, backgroundJobTimer, timers, initVars>>

\* (variant) the interval is left running
StopHeartbeatNever(cs, c) == cs

\* clearInterval(heartbeatInterval) of connection c
StopHeartbeat(cs, c) == [cs EXCEPT ![c].heartbeat = FALSE]

\* The 30 s interval of connection c fires.
Heartbeat(c) ==
  /\ conns[c].heartbeat
  /\ IF PushFails(conns, c)
       THEN /\ conns' = StopHeartbeat(conns, c)
            /\ storageSubscribers' = Unsubscribe(storageSubscribers, c)
            /\ last' = [Step("other") EXCEPT !.conn = c]
       ELSE /\ UNCHANGED <<conns, storageSubscribers>>
            /\ last' = [Step("other") EXCEPT !.conn = c, !.event = HeartbeatEvent]
  /\ UNCHANGED <<authVars, storageCache, schedVars, initVars, sinks>>

\* The response stream of connection c is closed from outside: enqueue
\* throws from then on.
SinkClose(c) ==
  /\ conns[c].open
  /\ conns[c].sinkOpen
  /\ conns' = [conns EXCEPT ![c].sinkOpen = FALSE]
  /\ last' = Step("other")
  /\ UNCHANGED <<authVars, storageCache, storageSubscribers, schedVars, initVars, sinks>>

\* (variant) the cleanup also cancels the scheduler's timeout
AbortStopsScheduler(c) ==
  /\ conns[c].open
  /\ conns' = [conns EXCEPT ![c] = NoConn]
  /\ storageSubscribers' = Unsubscribe(storageSubscribers, c)
  /\ timers' = ClearPending(timers, backgroundJobTimer)
  /\ backgroundJobTimer' = NullTimer
  /\ last' = [Step("other") EXCEPT !.conn = c]
  /\ UNCHANGED <<authVars, storageCache, backgroundJobRunning, jobs, initVars, sinks>>

\* The abort listener of connection c's request.
Abort(c) ==
  /\ conns[c].open
  /\ conns' = [conns EXCEPT ![c] = NoConn]
  /\ storageSubscribers' = Unsubscribe(storageSubscribers, c)
  /\ last' = [Step("other") EXCEPT !.conn = c]
  /\ UNCHANGED <<authVars, storageCache, schedVars, initVars, sinks>>

\* ------------------------------------------- health check and reconnect
\* An error text is a sequence of words; includes() finds a phrase in it.
Includes(text, phrase) ==
  \E i \in 1..(Len(text) - Len(phrase) + 1) :
    SubSeq(text, i, i + Len(phrase) - 1) = phrase

TokenMarkers ==
  { <<"invalid_grant">>, <<"token", "expired">>, <<"couldn't", "fetch", "token">> }

\* The error texts a daemon error body may carry; <<>> is a body without an
\* error text (or one that is no JSON, which the handler reads as {}).
NoErrorText == <<>>

ErrorTexts ==
  { NoErrorText,
    <<"oauth2:", "invalid_grant">>,
    <<"token", "expired">>,
    <<"couldn't", "fetch", "token">>,
    <<"directory", "not", "found">> }

HttpOk == 200
HttpUnauthorized == 401
HttpInternalError == 500

\* What the daemon does with one call of a request handler: it answers with
\* a success, with an error status and an error body, or the call times out
\* or finds no daemon.
DaemonReplies ==
  { [kind |-> "ok"], [kind |-> "timeout"], [kind |-> "refused"] }
    \cup [kind : {"http"}, status : {HttpUnauthorized, HttpInternalError},
          error : ErrorTexts]

HasTokenMarker(reply) ==
  /\ reply.status = HttpInternalError
  /\ reply.error # NoErrorText
  /\ \E m \in TokenMarkers : Includes(reply.error, m)

NoRemote == 0

\* (variant) the remote name is not looked at
CheckResponseUnguarded(remote, reply) ==
  IF reply.kind = "http" THEN
    IF HasTokenMarker(reply)
    THEN [status |-> HttpOk, success |-> FALSE, health |-> "token_expired",
          remote |-> remote]
    ELSE [status |-> reply.status, success |-> FALSE, health |-> "error",
          remote |-> remote]
  ELSE IF reply.kind = "ok"
    THEN [status |-> HttpOk, success |-> TRUE, health |-> "healthy",
          remote |-> remote]
  ELSE [status |-> IF reply.kind = "timeout" THEN 408 ELSE 503,
        success |-> FALSE, health |-> "error", remote |-> remote]

\* The response of check/route.ts POST for a request naming `remote`, when
\* the daemon answers the capacity probe with `reply`.
CheckResponse(remote, reply) ==
  IF remote = NoRemote THEN [status |-> 400, success |-> FALSE]
  ELSE IF reply.kind = "http" THEN
    IF HasTokenMarker(reply)
    THEN [status |-> HttpOk, success |-> FALSE, health |-> "token_expired",
          remote |-> remote]
    ELSE [status |-> reply.status, success |-> FALSE, health |-> "error",
          remote |-> remote]
  ELSE IF reply.kind = "ok"
    THEN [status |-> HttpOk, success |-> TRUE, health |-> "healthy",
          remote |-> remote]
  ELSE [status |-> IF reply.kind = "timeout" THEN 408 ELSE 503,
        success |-> FALSE, health |-> "error", remote |-> remote]

\* The response of refresh/route.ts POST.
ReconnectResponse(remote, reply) ==
  IF remote = NoRemote THEN [status |-> 400, success |-> FALSE]
  ELSE IF reply.kind = "ok" THEN [status |-> HttpOk, success |-> TRUE]
  ELSE [status |-> HttpInternalError, success |-> FALSE]

\* A handler that only talks to the daemon reads and writes none of the
\* shared state, so its awaits need no step of their own.
Asked(req, remote, reply, response) ==
  [Step("other") EXCEPT
     !.req = req, !.remote = remote, !.response = response,
     !.reply = IF remote = NoRemote THEN None ELSE reply,
     !.attempts = IF remote = NoRemote THEN 0 ELSE 1]

CheckPOST(remote, reply) ==
  /\ last' = Asked("POST check", remote, reply, CheckResponse(remote, reply))
  /\ UNCHANGED <<authVars, storageCache, storageSubscribers, backgroundJobRunning,
                 backgroundJobTimer, backgroundJobInitialized, timers, jobs,
                 conns, init, sinks>>

ReconnectPOSTDropsRecord(remote, reply) ==
  /\ last' = Asked("POST refresh", remote, reply,
                   ReconnectResponse(remote, reply))
  /\ storageCache' =
       IF remote \in DOMAIN storageCache /\ ReconnectResponse(remote, reply).success
       THEN [r \in DOMAIN storageCache \ {remote} |-> storageCache[r]]
       ELSE storageCache
  /\ UNCHANGED <<authVars, storageSubscribers, backgroundJobRunning,
                 backgroundJobTimer, backgroundJobInitialized, timers, jobs,
                 conns, init, sinks>>

ReconnectPOST(remote, reply) ==
  /\ last' = Asked("POST refresh", remote, reply,
                   ReconnectResponse(remote, reply))
  /\ UNCHANGED <<authVars, storageCache, storageSubscribers, backgroundJobRunning,
                 backgroundJobTimer, backgroundJobInitialized, timers, jobs,
                 conns, init, sinks>>

\* ------------------------------------------------------ the file listing
\* The daemon's answers to the calls of a listing request.
ListingReplies ==
  {r \in DaemonReplies :
     r.kind = "http" => r.error \in {<<"token", "expired">>,
                                     <<"directory", "not", "found">>}}

filesMaxRetries == 3

\* Error messages are sequences of words, like error texts.
ExpiredToken == <<"EXPIRED_TOKEN", ":">>

\* The Error an attempt of the file listing ends with when the daemon
\* answers operations/list with `reply`: the message of the Error thrown in
\* the try block, or that of the failed fetch.
FilesError(reply) ==
  IF reply.kind = "http" THEN
    IF HasTokenMarker(reply) THEN ExpiredToken \o reply.error
    ELSE <<"rclone", "RC", "API", "error", ":">>
  ELSE IF reply.kind = "timeout" THEN <<"The", "operation", "timed", "out">>
  ELSE <<"fetch", "failed">>

\* The for loop from `attempt` on: the number of calls made and the last
\* Error, or the success that returned from inside the loop.
RECURSIVE FilesLoop(_, _, _)
FilesLoop(replies, attempt, lastError) ==
  IF attempt > filesMaxRetries
    THEN [ok |-> FALSE, attempts |-> attempt - 1, lastError |-> lastError]
  ELSE IF replies[attempt].kind = "ok"
    THEN [ok |-> TRUE, attempts |-> attempt, lastError |-> lastError]
  ELSE FilesLoop(replies, attempt + 1, FilesError(replies[attempt]))

FilesRun(replies) == FilesLoop(replies, 1, <<>>)

\* The response of the file-listing GET.
FilesResponse(remote, replies) ==
  IF remote = NoRemote THEN [status |-> 400, success |-> FALSE]
  ELSE LET run == FilesRun(replies)
           isTokenExpired == Includes(run.lastError, <<"EXPIRED_TOKEN">>)
       IN IF run.ok THEN [status |-> HttpOk, success |-> TRUE, remote |-> remote]
          ELSE [status |-> IF isTokenExpired THEN HttpUnauthorized
                                             ELSE HttpInternalError,
                success |-> FALSE, tokenExpired |-> isTokenExpired,
                remote |-> remote]

\* GET of the file listing for `remote`, when the daemon would answer the
\* attempts with `replies`.  The handler reads and writes none of the shared
\* state.
FilesGET(remote, replies) ==
  /\ last' = [Step("other") EXCEPT
               !.req = "GET files",
               !.remote = remote,
               !.response = FilesResponse(remote, replies),
               !.attempts = IF remote = NoRemote THEN 0
                            ELSE FilesRun(replies).attempts,
               !.replies = IF remote = NoRemote THEN <<>>
                           ELSE SubSeq(replies, 1, FilesRun(replies).attempts)]
  /\ UNCHANGED <<authVars, storageCache, storageSubscribers, backgroundJobRunning,
                 backgroundJobTimer, backgroundJobInitialized, timers, jobs,
                 conns, init, sinks>>

\* ---------------------------------------------------- the remote listing
remotesMaxRetries == 3

\* config/get: a 200 body with or without a type, a non-2xx status, or no
\* reply before the 3 s abort.
ConfigReplies ==
  { [kind |-> "ok", type |-> "drive"],
    [kind |-> "ok", type |-> undefinedStr],
    [kind |-> "http"],
    [kind |-> "timeout"] }

\* the type the loop body stores for a remote
RemoteType(config) ==
  IF config.kind = "ok" /\ config.type # undefinedStr THEN config.type
  ELSE "unknown"

\* (variant) a remote whose configuration cannot be fetched gets no entry
RemoteDetailsSkipFailed(remotes, configs) ==
  [r \in {remotes[k] : k \in {x \in 1..Len(remotes) : configs[x].kind = "ok"}} |->
     LET k == CHOOSE x \in 1..Len(remotes) : remotes[x] = r
     IN RemoteType(configs[k])]

\* remoteDetails after the loop over the remotes
RemoteDetails(remotes, configs) ==
  [r \in SeqSet(remotes) |->
     LET k == CHOOSE x \in 1..Len(remotes) : remotes[x] = r
     IN RemoteType(configs[k])]

\* `data.remotes || []` of one attempt, if the attempt gets that far and
\* the value can be iterated
Listing(reply) ==
  IF reply \in {ListFailed, ListMalformed} THEN NotIterable ELSE RemoteList(reply)

\* The for loop from `attempt` on: the number of list calls made and the
\* list of the attempt that returned, if one did.
RECURSIVE RemotesLoop(_, _)
RemotesLoop(replies, attempt) ==
  IF attempt > remotesMaxRetries
    THEN [ok |-> FALSE, attempts |-> attempt - 1, remotes |-> <<>>]
  ELSE IF Listing(replies[attempt]) # NotIterable
    THEN [ok |-> TRUE, attempts |-> attempt, remotes |-> Listing(replies[attempt])]
  ELSE RemotesLoop(replies, attempt + 1)

RemotesRun(replies) == RemotesLoop(replies, 1)

\* The response of the remote-listing GET.
RemotesResponse(replies, configs) ==
  LET run == RemotesRun(replies)
  IN IF run.ok
       THEN [status |-> HttpOk, success |-> TRUE, remotes |-> run.remotes,
             remoteDetails |-> RemoteDetails(run.remotes, configs)]
       ELSE [status |-> HttpInternalError, success |-> FALSE, remotes |-> <<>>]

\* GET of the remote listing, when the daemon would answer the list calls
\* with `replies` and the config/get calls of the listed remotes with
\* `configs`.  The handler reads and writes none of the shared state.
RemotesGET(replies, configs) ==
  /\ Len(configs) = Len(RemotesRun(replies).remotes)
  /\ last' = [Step("other") EXCEPT
               !.req = "GET remotes",
               !.response = RemotesResponse(replies, configs),
               !.attempts = RemotesRun(replies).attempts,
               !.replies = SubSeq(replies, 1, RemotesRun(replies).attempts),
               !.configs = configs]
  /\ UNCHANGED <<authVars, storageCache, storageSubscribers, backgroundJobRunning,
                 backgroundJobTimer, backgroundJobInitialized, timers, jobs,
                 conns, init, sinks>>

\* ------------------------------------------ sign-in and the password change
\* The handlers of one request run here as one step each: the store holds one
\* row, nothing in the program deletes it, and the username of a request is
\* the row's.
Root == <<"/">>
AuthLogin == <<"/", "auth", "/", "login">>
AuthChangePassword == <<"/", "auth", "/", "change-password">>

\* The paths a browser asks for.
PagePaths ==
  {Root, <<"/", "x">>, <<"/", "auth">>, <<"/", "auth", "/">>,
   <<"/", "auth", "/", "x">>,
   AuthLogin, AuthLogin \o <<"x">>, AuthLogin \o <<"/", "x">>,
   AuthChangePassword, AuthChangePassword \o <<"/", "x">>,
   ApiStorage, <<"/", "api", "x">>, <<"/", "favicon.ico">>}

\* NextResponse.next() and NextResponse.redirect(new URL(to, req.url))
PassedOn == [passed |-> TRUE]
Redirect(to) == [redirect |-> to]

\* withAuth's answer to a request that is not authorized
SignInPage == [signIn |-> TRUE]

\* token.mustChangePassword || token.isFirstLogin
MustChange(token) == token.mustChangePassword \/ token.isFirstLogin

\* (variant) a first login alone does not force the change
middlewareFirstLoginFree(path, token) ==
  IF IsPrefix(<<"/", "auth", "/">>, path)
    THEN IF token # None /\ path # AuthChangePassword
           THEN IF MustChange(token)
                  THEN Redirect(AuthChangePassword)
                  ELSE Redirect(Root)
           ELSE PassedOn
    ELSE IF token # None /\ token.mustChangePassword
           THEN Redirect(AuthChangePassword)
           ELSE PassedOn

\* The function withAuth wraps; `token` is req.nextauth.token, None if the
\* request has none.
middleware(path, token) ==
  IF IsPrefix(<<"/", "auth", "/">>, path)
    THEN IF token # None /\ path # AuthChangePassword
           THEN IF MustChange(token)
                  THEN Redirect(AuthChangePassword)
                  ELSE Redirect(Root)
           ELSE PassedOn
    ELSE IF token # None /\ MustChange(token)
           THEN Redirect(AuthChangePassword)
           ELSE PassedOn

\* What a page request gets: the middleware runs on the paths of the matcher,
\* and withAuth calls it on the requests `authorized` lets through.
PageResponse(path, token) ==
  IF ~matcher(path) THEN PassedOn
  ELSE IF ~authorized(path, token # None) THEN SignInPage
  ELSE middleware(path, token)

\* A browser asks for a page.
PageRequest(path) ==
  /\ last' = [Step("other") EXCEPT
                !.req = "GET page",
                !.path = path,
                !.token = sessionToken,
                !.session = sessionToken # None,
                !.response = PageResponse(path, sessionToken)]
  /\ UNCHANGED <<storageCache, schedVars, hubVars, initVars, sinks, authVars>>

\* The credentials provider: the user object of a sign-in, None if it is
\* turned down.
authorize(row, password) ==
  IF password = "" THEN None
  ELSE IF ~row.isActive THEN None
  ELSE IF ~compare(password, row.password) THEN None
  ELSE [isFirstLogin |-> row.isFirstLogin,
        mustChangePassword |-> row.mustChangePassword]

\* callbacks.jwt: the flags are copied when a user object comes with the
\* call, which is at sign-in only.
jwt(token, signedIn) ==
  IF signedIn # None
    THEN [sub |-> token.sub,
          isFirstLogin |-> signedIn.isFirstLogin,
          mustChangePassword |-> signedIn.mustChangePassword]
    ELSE token

\* A sign-in with the credentials form; a new session starts when it
\* succeeds.
SignIn(password) ==
  LET signedIn == authorize(user, password)
  IN /\ sessionToken' = IF signedIn # None
                          THEN jwt([sub |-> "admin"], signedIn)
                          ELSE sessionToken
     /\ sessionChanged' = IF signedIn # None THEN FALSE ELSE sessionChanged
     /\ last' = [Step("other") EXCEPT
                   !.req = "POST sign-in",
                   !.response = [ok |-> signedIn # None]]
     /\ UNCHANGED <<storageCache, schedVars, hubVars, initVars, sinks, user>>

\* signOut(): the cookie is dropped.
SignOut ==
  /\ sessionToken # None
  /\ sessionToken' = None
  /\ sessionChanged' = FALSE
  /\ last' = [Step("other") EXCEPT !.req = "POST sign-out"]
  /\ UNCHANGED <<storageCache, schedVars, hubVars, initVars, sinks, user>>

\* newPassword.length < 8
minPasswordLength == 8

HttpBadRequest == 400

ChangePasswordResponse(token, row, currentPassword, newPassword) ==
  IF token = None THEN Unauthorized
  ELSE IF currentPassword = "" \/ newPassword = ""
    THEN [status |-> HttpBadRequest, error |-> "passwords missing"]
  ELSE IF Len(newPassword) < minPasswordLength
    THEN [status |-> HttpBadRequest, error |-> "new password too short"]
  ELSE IF ~compare(currentPassword, row.password)
    THEN [status |-> HttpBadRequest, error |-> "current password wrong"]
  ELSE [status |-> HttpOk, success |-> TRUE]

\* POST /api/auth/change-password: the row is updated, the cookie is not
\* touched.
ChangePasswordPOST(currentPassword, newPassword) ==
  LET response == ChangePasswordResponse(sessionToken, user,
                                         currentPassword, newPassword)
      succeeded == response.status = HttpOk
  IN /\ user' = IF succeeded
                  THEN [user EXCEPT !.password = hash(newPassword),
                                    !.isFirstLogin = FALSE,
                                    !.mustChangePassword = FALSE]
                  ELSE user
     /\ sessionChanged' = (sessionChanged \/ succeeded)
     /\ last' = [Step("other") EXCEPT
                   !.req = "POST change-password",
                   !.session = sessionToken # None,
                   !.token = sessionToken,
                   !.response = response]
     /\ UNCHANGED <<storageCache, schedVars, hubVars, initVars, sinks,
                    sessionToken>>

\* ------------------------------------------------- start-up initialisation
\* lib/background-storage is loaded: initializeBackgroundJob()
ModuleLoad ==
  /\ IF backgroundJobInitialized
       THEN UNCHANGED initVars
       ELSE /\ backgroundJobInitialized' = TRUE
            /\ init' = [pc |-> "delay", retryCount |-> 0]
  /\ last' = Step("other")
  /\ UNCHANGED <<authVars, storageCache, schedVars, hubVars, sinks>>

\* STARTUP_DELAY has passed, or a retry delay: tryStartJob() asks core/version
TryStartJob ==
  /\ init.pc \in {"delay", "retry"}
  /\ init' = [init EXCEPT !.pc = "probe"]
  /\ last' = Step("other")
  /\ UNCHANGED <<authVars, storageCache, backgroundJobInitialized, schedVars, hubVars, sinks>>

\* (variant) `retryCount <= maxRetries`
VersionReplyOneMore(ok) ==
  /\ init.pc = "probe"
  /\ IF ok
       THEN /\ runStorageCheckJob("lib")
            /\ init' = [init EXCEPT !.pc = "started"]
            /\ last' = [Step("other") EXCEPT !.call = Called]
       ELSE /\ init' = [pc |-> IF init.retryCount + 1 <= maxRetries
                                 THEN "retry" ELSE "failed",
                        retryCount |-> init.retryCount + 1]
            /\ last' = Step("other")
            /\ UNCHANGED <<backgroundJobRunning, jobs>>
  /\ UNCHANGED <<authVars, storageCache, backgroundJobInitialized, backgroundJobTimer,
                 timers, hubVars, sinks>>

\* The answer to core/version, or its failure
VersionReply(ok) ==
  /\ init.pc = "probe"
  /\ IF ok
       THEN /\ runStorageCheckJob("lib")
            /\ init' = [init EXCEPT !.pc = "started"]
            /\ last' = [Step("other") EXCEPT !.call = Called]
       ELSE /\ init' = [pc |-> IF init.retryCount + 1 < maxRetries
                                 THEN "retry" ELSE "failed",
                        retryCount |-> init.retryCount + 1]
            /\ last' = Step("other")
            /\ UNCHANGED <<backgroundJobRunning, jobs>>
  /\ UNCHANGED <<authVars, storageCache, backgroundJobInitialized, backgroundJobTimer,
                 timers, hubVars, sinks>>

\* ---------------------------------------------------------- specifications
Init == InitWith(MaxConns)

\* The whole program: every handler, timer and daemon reply.  The daemon
\* answers a probe with one capacity body or not at all.
Next ==
  \/ SnapshotGET(TRUE)
  \/ RefreshPOST(TRUE)
  \/ \E t \in 1..MaxTimers : TimerFire(t)
  \/ \E i \in 1..MaxJobs, reply \in ListReplies(MaxList) : ListReply(i, reply)
  \/ \E i \in 1..MaxJobs, r \in 1..MaxList, reply \in PlainReplies :
       ProbeReply(i, r, reply, 0)
  \/ \E session \in BOOLEAN : StreamGET(session)
  \/ \E c \in ConnIds : Heartbeat(c)
  \/ \E c \in ConnIds : SinkClose(c)
  \/ \E c \in ConnIds : Abort(c)
  \/ ModuleLoad
  \/ TryStartJob
  \/ \E ok \in BOOLEAN : VersionReply(ok)

Spec == Init /\ [][Next]_vars

\* The scheduler and the cache, with every kind of probe reply, a clock
\* that moves, and storage requests with and without a session.
InitData == InitWith(0)

NextData ==
  \/ \E session \in BOOLEAN : SnapshotGET(session)
  \/ \E session \in BOOLEAN : RefreshPOST(session)
  \/ \E t \in 1..MaxTimers : TimerFire(t)
  \/ \E i \in 1..MaxJobs, reply \in ListReplies(MaxDataList) : ListReply(i, reply)
  \/ \E i \in 1..MaxJobs, r \in 1..MaxDataList, reply \in AboutReplies,
       now \in 0..MaxTime : ProbeReply(i, r, reply, now)

DataSpec == InitData /\ [][NextData]_vars

\* The snapshot endpoint over a cache of several remotes whose records carry
\* different stamps.
NextSnap ==
  \/ SnapshotGET(TRUE)
  \/ RefreshPOST(TRUE)
  \/ \E t \in 1..MaxTimers : TimerFire(t)
  \/ \E i \in 1..MaxJobs, reply \in ListReplies(MaxSnapList) : ListReply(i, reply)
  \/ \E i \in 1..MaxJobs, r \in 1..MaxSnapList, reply \in PlainReplies,
       now \in 0..MaxTime : ProbeReply(i, r, reply, now)

SnapSpec == InitData /\ [][NextSnap]_vars

\* The scheduler, with remote lists longer than one batch.
NextBatch ==
  \/ SnapshotGET(TRUE)
  \/ RefreshPOST(TRUE)
  \/ \E t \in 1..MaxTimers : TimerFire(t)
  \/ \E i \in 1..MaxJobs, reply \in ListReplies(MaxBatchList) : ListReply(i, reply)
  \/ \E i \in 1..MaxJobs, r \in 1..MaxBatchList, reply \in PlainReplies :
       ProbeReply(i, r, reply, 0)

BatchSpec == InitData /\ [][NextBatch]_vars

\* The hub: connections that come, close and go while cycles publish.
InitHub == InitWith(MaxHubConns)

NextHub ==
  \/ SnapshotGET(TRUE)
  \/ RefreshPOST(TRUE)
  \/ \E t \in 1..MaxTimers : TimerFire(t)
  \/ \E i \in 1..MaxJobs, reply \in ListReplies(1) : ListReply(i, reply)
  \/ \E i \in 1..MaxJobs, reply \in PlainReplies : ProbeReply(i, 1, reply, 0)
  \/ \E session \in BOOLEAN : StreamGET(session)
  \/ \E c \in ConnIds : Heartbeat(c)
  \/ \E c \in ConnIds : SinkClose(c)
  \/ \E c \in ConnIds : Abort(c)

HubSpec == InitHub /\ [][NextHub]_vars

\* The hub with every response stream watched.
InitOrder ==
  /\ storageCache = EmptyMap
  /\ storageSubscribers = <<>>
  /\ backgroundJobRunning = FALSE
  /\ backgroundJobTimer = NullTimer
  /\ backgroundJobInitialized = FALSE
  /\ timers = EmptyMap
  /\ jobs = <<>>
  /\ conns = [c \in 1..MaxOrderConns |-> NoConn]
  /\ init = [pc |-> "unloaded", retryCount |-> 0]
  /\ sinks = [on |-> TRUE, published |-> 0,
              queue |-> [c \in 1..MaxOrderConns |-> <<>>],
              seen |-> [c \in 1..MaxOrderConns |-> EmptyMap]]
  /\ user = SeededAdmin
  /\ sessionToken = None
  /\ sessionChanged = FALSE
  /\ last = Step("other")

OrderSpec == InitOrder /\ [][NextHub]_vars

\* The hub while daemon calls return or time out.
InitFairHub == InitWith(MaxFairConns)

FairHubSpec ==
  /\ InitFairHub
  /\ [][NextHub]_vars
  /\ WF_vars(\E i \in 1..MaxJobs, reply \in ListReplies(1) : ListReply(i, reply))
  /\ WF_vars(\E i \in 1..MaxJobs, reply \in PlainReplies : ProbeReply(i, 1, reply, 0))

\* The hub while daemon calls return or time out and pending timeouts fire.
FairTimerSpec ==
  /\ FairHubSpec
  /\ WF_vars(\E t \in 1..MaxTimers : TimerFire(t))

\* Daemon calls return or time out: a reply that is awaited arrives.
FairSpec ==
  /\ Spec
  /\ WF_vars(\E i \in 1..MaxJobs, reply \in ListReplies(MaxList) : ListReply(i, reply))
  /\ WF_vars(\E i \in 1..MaxJobs, r \in 1..MaxList, reply \in PlainReplies :
               ProbeReply(i, r, reply, 0))

\* The on-demand operations next to a running scheduler.
NextOps ==
  \/ SnapshotGET(TRUE)
  \/ RefreshPOST(TRUE)
  \/ \E t \in 1..MaxTimers : TimerFire(t)
  \/ \E i \in 1..MaxJobs, reply \in ListReplies(1) : ListReply(i, reply)
  \/ \E i \in 1..MaxJobs, reply \in PlainReplies : ProbeReply(i, 1, reply, 0)
  \/ \E remote \in {NoRemote, 1}, reply \in DaemonReplies : CheckPOST(remote, reply)
  \/ \E remote \in {NoRemote, 1}, reply \in DaemonReplies :
       ReconnectPOST(remote, reply)

OpsSpec == InitData /\ [][NextOps]_vars

\* The listing requests, which talk to the daemon only.
NextListing ==
  \/ \E remote \in {NoRemote, 1},
        replies \in [1..filesMaxRetries -> ListingReplies] :
       FilesGET(remote, replies)
  \/ \E replies \in [1..remotesMaxRetries -> ListReplies(MaxRemotesList)] :
       \E configs \in [1..Len(RemotesRun(replies).remotes) -> ConfigReplies] :
         RemotesGET(replies, configs)

ListingSpec == InitData /\ [][NextListing]_vars

\* Sign-in, sign-out, the password change and the page requests of one
\* browser, over every row the table can hold for the user.
InitAuth ==
  /\ storageCache = EmptyMap
  /\ storageSubscribers = <<>>
  /\ backgroundJobRunning = FALSE
  /\ backgroundJobTimer = NullTimer
  /\ backgroundJobInitialized = FALSE
  /\ timers = EmptyMap
  /\ jobs = <<>>
  /\ conns = EmptyMap
  /\ init = [pc |-> "unloaded", retryCount |-> 0]
  /\ sinks = Unwatched
  /\ user \in UserRows
  /\ sessionToken = None
  /\ sessionChanged = FALSE
  /\ last = Step("other")

NextAuth ==
  \/ \E password \in Passwords : SignIn(password)
  \/ SignOut
  \/ \E currentPassword \in Passwords, newPassword \in Passwords :
       ChangePasswordPOST(currentPassword, newPassword)
  \/ \E path \in PagePaths : PageRequest(path)

AuthSpec == InitAuth /\ [][NextAuth]_vars

\* ------------------------------------------------------------------ claims
Undefined(rec) ==
  rec.total = undefinedNum /\ rec.used = undefinedNum /\ rec.free = undefinedNum

Failed(rec) == rec.error # undefinedStr

Occurrences(s, c) == Cardinality({k \in 1..Len(s) : s[k] = c})

Armed == backgroundJobTimer \in DOMAIN timers

\* C1: at most one refresh cycle is in progress at any instant, and it is in
\* progress exactly while the flag is set; a call of runStorageCheckJob made
\* while the flag is set is refused: it starts no list-remotes call and no
\* probe and leaves the running cycle and the cache as they are.
C1_SingleCycle ==
  /\ [](Len(jobs) <= 1 /\ (backgroundJobRunning <=> Len(jobs) = 1))
  /\ [][(backgroundJobRunning /\ last'.call # "none")
          => (last'.call = "refused" /\ jobs' = jobs /\ storageCache' = storageCache)]_vars

\* a trigger was refused while a batch of the running cycle was in flight
C1_Witness ==
  /\ last.call = "refused"
  /\ Len(jobs) = 1
  /\ jobs[1].pc = "batch"
  /\ jobs[1].inflight # {}

\* there is a stored record and it agrees with the probe's record on total,
\* used and error
Agree(old, result) ==
  /\ old # None
  /\ old.total = result.total
  /\ old.used = result.used
  /\ old.error = result.error

\* C2: the merge of a probe result reports changed = false when the stored
\* record and the result agree on total, used and error, whatever free and
\* lastUpdated are, and changed = true when one of the three differs or the
\* remote has no stored record.
C2_MergeReport ==
  last.op = "ProbeReply" => (last.changed <=> ~Agree(last.old, last.result))

\* a merge reported no change although free and lastUpdated both differed
C2_Witness ==
  /\ last.op = "ProbeReply"
  /\ ~last.changed
  /\ last.old # None
  /\ last.result.free # last.old.free
  /\ last.result.lastUpdated # last.old.lastUpdated

\* C3: a cycle calls notifySubscribers only in the step that ends it, after
\* its last batch; there it calls it once if a merge of the cycle reported a
\* change and not at all otherwise.  No step outside a cycle notifies.
C3_NotifyOncePerCycle ==
  [][/\ (jobs = <<>> \/ jobs' # <<>>) => last'.count = 0
     /\ (jobs # <<>> /\ jobs' = <<>>)
          => last'.count = IF jobs[1].anyChanged \/ last'.changed THEN 1 ELSE 0]_vars

\* a cycle of two batches notified once at its end: the change was in the
\* first batch, the last merge reported none
C3_Witness ==
  /\ last.op = "ProbeReply"
  /\ last.count = 1
  /\ ~last.changed
  /\ last.remote > concurrentLimit
  /\ jobs = <<>>

\* C4: in one publish every subscriber of the set whose push succeeds is sent
\* the snapshot exactly once and stays subscribed; every subscriber whose
\* push fails is sent nothing and is out of the set when the publish ends;
\* nobody else is sent anything.
C4_PublishSafe ==
  last.count > 0 =>
    /\ last.count = 1
    /\ SeqSet(last.delivered) \subseteq SeqSet(last.targets)
    /\ SeqSet(storageSubscribers) \subseteq SeqSet(last.targets)
    /\ \A c \in SeqSet(last.targets) :
         IF PushFails(conns, c)
           THEN Occurrences(last.delivered, c) = 0
                /\ Occurrences(storageSubscribers, c) = 0
           ELSE Occurrences(last.delivered, c) = 1
                /\ Occurrences(storageSubscribers, c) = 1

\* three subscribers, the first one's sink closed: the other two were sent
\* the snapshot
C4_Witness ==
  /\ last.count = 1
  /\ Len(last.targets) = 3
  /\ PushFails(conns, last.targets[1])
  /\ last.delivered = <<last.targets[2], last.targets[3]>>
  /\ storageSubscribers = last.delivered

\* C5: when the list-remotes call of a cycle fails or returns the empty
\* list, the step leaves the cache and the subscriber set unchanged, starts
\* no probe, publishes nothing, and ends the cycle with the flag cleared and
\* a timer armed.
C5_EmptyListEndsCycle ==
  [][\A i \in 1..Len(jobs), reply \in {ListFailed, 0} :
       ListReply(i, reply)
         => /\ storageCache' = storageCache
            /\ storageSubscribers' = storageSubscribers
            /\ jobs' = RemoveAt(jobs, i)
            /\ last'.count = 0
            /\ ~backgroundJobRunning'
            /\ backgroundJobTimer' \in DOMAIN timers']_vars

\* a cycle ended on its list reply while the cache held a record and a
\* subscriber was connected
C5_Witness ==
  /\ last.op = "ListReply"
  /\ ~last.threw
  /\ jobs = <<>>
  /\ storageCache # EmptyMap
  /\ storageSubscribers # <<>>
  /\ ~backgroundJobRunning
  /\ Armed

\* C6: a cycle that is running eventually ends, and the step that ends it,
\* be it the end of the loop, the early return or a throw, leaves the flag
\* cleared and a timer armed.
C6_CycleEnds ==
  /\ backgroundJobRunning ~> ~backgroundJobRunning
  /\ [][(backgroundJobRunning /\ Len(jobs') < Len(jobs))
          => (~backgroundJobRunning' /\ backgroundJobTimer' \in DOMAIN timers')]_vars

\* a cycle ended by a throw while a record was in the cache
C6_Witness ==
  /\ last.op = "ListReply"
  /\ last.threw
  /\ storageCache # EmptyMap
  /\ jobs = <<>>
  /\ ~backgroundJobRunning
  /\ Armed

\* C7: at most one timeout is pending, and it is the one the global handle
\* refers to: a cycle that ends while a timeout is pending clears it before
\* arming its own.
C7_OneTimer ==
  /\ Cardinality(DOMAIN timers) <= 1
  /\ DOMAIN timers \subseteq {backgroundJobTimer}

\* a cycle ended while an earlier timeout was pending and cleared it
C7_Witness ==
  /\ last.op \in {"ListReply", "ProbeReply"}
  /\ jobs = <<>>
  /\ last.cancelled
  /\ Cardinality(DOMAIN timers) = 1

\* the places of the batch in flight in the list of job j
BatchFirst(j) == ((Len(j.issued) - 1) \div concurrentLimit) * concurrentLimit + 1

\* C8: the probes of a cycle go out in list order in batches of
\* concurrentLimit (the last one shorter); the probes in flight belong to one
\* batch, so never more than concurrentLimit; the batches before it have
\* completed and their remotes are in the cache.  A cycle that ends has
\* every listed remote in the cache.
C8_Batches ==
  /\ [](\A i \in 1..Len(jobs) :
          LET j == jobs[i]
              n == Len(j.remotes)
              k == Len(j.issued)
          IN j.pc = "batch" =>
               /\ j.issued = SubSeq(j.remotes, 1, k)
               /\ j.remotesToCheck = SubSeq(j.remotes, k + 1, n)
               /\ k = Min(n, BatchFirst(j) + concurrentLimit - 1)
               /\ j.inflight \subseteq {j.remotes[x] : x \in BatchFirst(j)..k}
               /\ Cardinality(j.inflight) <= concurrentLimit
               /\ \A x \in 1..k : j.remotes[x] \notin j.inflight
                                    => j.remotes[x] \in DOMAIN storageCache)
  /\ [][(jobs # <<>> /\ jobs' = <<>>)
          => SeqSet(jobs[1].remotes) \subseteq DOMAIN storageCache']_vars

\* six remotes and an empty cache: the second batch of one ended the cycle
\* and the cache has six entries
C8_Witness ==
  /\ last.op = "ProbeReply"
  /\ last.remote = concurrentLimit + 1
  /\ last.changed
  /\ jobs = <<>>
  /\ DOMAIN storageCache = 1..(concurrentLimit + 1)

\* C9: when a cycle with a non-empty list ends, every listed remote has a
\* cache entry, and the entry has error set exactly if the remote's probe of
\* this cycle failed.
C9_FailuresAbsorbed ==
  [][(jobs # <<>> /\ jobs' = <<>> /\ last'.op = "ProbeReply")
       => LET failed == jobs[1].failed \cup
                          (IF Failed(last'.result) THEN {last'.remote} ELSE {})
          IN \A x \in SeqSet(jobs[1].remotes) :
               /\ x \in DOMAIN storageCache'
               /\ Failed(storageCache'[x]) <=> x \in failed]_vars

\* a cycle over two batches ended; a probe of its first batch had failed
C9_Witness ==
  /\ last.op = "ProbeReply"
  /\ jobs = <<>>
  /\ last.remote > concurrentLimit
  /\ ~Failed(last.result)
  /\ Failed(storageCache[1])
  /\ ~Failed(storageCache[2])

\* C10: no cache record has error set together with total, used or free; a
\* merge that reports a change stores the probe's record as a whole.
C10_ErrorOrSizes ==
  /\ \A r \in DOMAIN storageCache : Failed(storageCache[r]) => Undefined(storageCache[r])
  /\ (last.op = "ProbeReply" /\ last.changed) => storageCache[last.remote] = last.result

\* the record of a failed probe replaced the record of a successful one
C10_Witness ==
  /\ last.op = "ProbeReply"
  /\ last.changed
  /\ Failed(last.result)
  /\ last.old # None
  /\ ~Failed(last.old)
  /\ ~Undefined(last.old)
  /\ storageCache[last.remote] = last.result

\* C11: after the probe of a remote completes, success or failure, the
\* lastUpdated of the remote's cache record is the completion time of that
\* probe.
C11_StampedAtCompletion ==
  last.op = "ProbeReply"
    => storageCache[last.remote].lastUpdated = last.result.lastUpdated

\* C12: a connection enters the subscriber set, and comes to exist, only in
\* the step of its own stream GET, which enqueues on it an `initial` event
\* with the cache as it is and publishes nothing; updates and heartbeats go
\* only to connections that existed before the step, so after their initial
\* event; a publish reaches every subscriber registered before it.
C12_InitialFirst ==
  [][\A c \in ConnIds :
       /\ (c \notin SeqSet(storageSubscribers) /\ c \in SeqSet(storageSubscribers'))
            => ~conns[c].open
       /\ (~conns[c].open /\ conns'[c].open)
            => /\ last'.conn = c
               /\ last'.event = [type |-> "initial", data |-> storageCache]
               /\ storageCache' = storageCache
               /\ last'.count = 0
               /\ c \in SeqSet(storageSubscribers')
       /\ c \in SeqSet(last'.delivered)
            => conns[c].open /\ c \in SeqSet(storageSubscribers)
       /\ (last'.conn = c /\ last'.event = HeartbeatEvent) => conns[c].open
       /\ (last'.count = 1 /\ c \in SeqSet(storageSubscribers) /\ conns[c].sinkOpen)
            => c \in SeqSet(last'.delivered)]_vars

\* a connection was opened while a cycle was running and the cache held a
\* record: it got the record in its initial event and is subscribed
C12_Witness ==
  /\ last.conn # 0
  /\ last.event = [type |-> "initial", data |-> storageCache]
  /\ storageCache # EmptyMap
  /\ backgroundJobRunning
  /\ last.conn \in SeqSet(storageSubscribers)

\* C13: a manual-refresh POST handled while no cycle is running clears the
\* pending timeout and the handle, starts a cycle in the same step, and
\* returns {success: true} while that cycle is still waiting for the remote
\* list.
C13_ManualRefresh ==
  [][(last'.req = "POST storage" /\ ~backgroundJobRunning)
       => /\ timers' = EmptyMap
          /\ backgroundJobTimer' = NullTimer
          /\ last'.cancelled = (timers # EmptyMap)
          /\ last'.call = "started"
          /\ backgroundJobRunning'
          /\ Len(jobs') = 1
          /\ jobs'[1].pc = "list"
          /\ storageCache' = storageCache
          /\ last'.response = [status |-> 200, success |-> TRUE]]_vars

\* a POST between two cycles cancelled the pending timeout and started a
\* cycle
C13_Witness ==
  /\ last.req = "POST storage"
  /\ last.cancelled
  /\ last.call = "started"
  /\ backgroundJobRunning
  /\ timers = EmptyMap
  /\ storageCache # EmptyMap

\* the step handled a request that calls startBackgroundJob
LazyStep(step) ==
  \/ step.req = "GET storage"
  \/ step.req = "GET stream" /\ step.response.status = 200

\* C14: a call of startBackgroundJob, from the snapshot GET or the stream
\* GET, never arms or clears a timeout; made while the handle is set or a
\* cycle is running it starts no cycle; it starts one only on a scheduler
\* whose handle is unset and that is idle, which is a scheduler that has
\* never started a cycle.
C14_LazyStartIdempotent ==
  /\ [][LazyStep(last')
          => /\ timers' = timers
             /\ backgroundJobTimer' = backgroundJobTimer
             /\ (backgroundJobTimer # NullTimer \/ backgroundJobRunning)
                  => (jobs' = jobs /\ backgroundJobRunning' = backgroundJobRunning
                      /\ last'.call # "started")
             /\ (backgroundJobTimer = NullTimer /\ ~backgroundJobRunning)
                  => (last'.call = "started" /\ Len(jobs') = 1
                      /\ backgroundJobRunning')]_vars
  /\ []((backgroundJobTimer = NullTimer /\ ~backgroundJobRunning)
          => (storageCache = EmptyMap /\ timers = EmptyMap /\ init.pc # "started"))

\* a stream GET found the handle unset while a cycle was running, so after
\* a manual refresh: its call was refused
C14_Witness ==
  /\ last.req = "GET stream"
  /\ last.response.status = 200
  /\ last.call = "refused"
  /\ backgroundJobTimer = NullTimer
  /\ storageCache # EmptyMap
  /\ Len(jobs) = 1

\* C15: a stream GET without a session is answered 401 and changes nothing:
\* no subscriber, no connection or heartbeat interval, no call of the
\* scheduler, no event.
C15_UnauthenticatedStream ==
  [][(last'.req = "GET stream" /\ ~last'.session)
       => /\ last'.response = [status |-> 401]
          /\ last'.call = "none"
          /\ last'.conn = 0
          /\ last'.event = None
          /\ last'.count = 0
          /\ UNCHANGED <<storageCache, storageSubscribers, conns,
                         backgroundJobRunning, backgroundJobTimer, timers, jobs,
                         backgroundJobInitialized, init>>]_vars

\* the request was rejected on a scheduler that had never started, with no
\* connection open
C15_Witness ==
  /\ last.req = "GET stream"
  /\ ~last.session
  /\ last.response = [status |-> 401]
  /\ backgroundJobTimer = NullTimer
  /\ ~backgroundJobRunning
  /\ storageSubscribers = <<>>

\* C16: no request without a session is served by the storage endpoints:
\* neither the snapshot GET nor the manual-refresh POST answers it.
C16_EndpointsProtected ==
  last.req \in {"GET storage", "POST storage"} => last.session

\* C17: the snapshot GET answers success = true with the cache as it is and
\* with lastUpdated the smallest lastUpdated of the cache records, or null
\* for an empty cache; the step leaves the cache as it was.
C17_SnapshotResponse ==
  /\ [](last.req = "GET storage"
          => /\ last.response.status = 200
             /\ last.response.success
             /\ last.response.data = storageCache
             /\ IF DOMAIN storageCache = {}
                  THEN last.response.lastUpdated = Null
                  ELSE /\ \E r \in DOMAIN storageCache :
                            last.response.lastUpdated = storageCache[r].lastUpdated
                       /\ \A r \in DOMAIN storageCache :
                            last.response.lastUpdated <= storageCache[r].lastUpdated)
  /\ [][last'.req = "GET storage" => storageCache' = storageCache]_vars

\* a snapshot of two records with different stamps reported the older one
C17_Witness ==
  /\ last.req = "GET storage"
  /\ DOMAIN storageCache = {1, 2}
  /\ storageCache[1].lastUpdated > storageCache[2].lastUpdated
  /\ last.response.lastUpdated = storageCache[2].lastUpdated

\* C18: when the heartbeat of a connection cannot be enqueued, the
\* connection's subscriber is taken out of the set and its interval is
\* stopped; every other subscriber keeps its place in the set, every other
\* connection keeps its interval, and nothing is sent.
C18_HeartbeatFailure ==
  [][\A c \in ConnIds :
       (Heartbeat(c) /\ ~conns[c].sinkOpen)
         => /\ c \notin SeqSet(storageSubscribers')
            /\ ~conns'[c].heartbeat
            /\ storageSubscribers' = SelectSeq(storageSubscribers, LAMBDA d : d # c)
            /\ \A d \in ConnIds \ {c} : conns'[d] = conns[d]
            /\ last'.event = None
            /\ last'.count = 0]_vars

\* the heartbeat of a subscribed connection failed while another connection
\* was subscribed with its interval running
C18_Witness ==
  /\ last.conn # 0
  /\ last.req = "none"
  /\ last.event = None
  /\ conns[last.conn].open
  /\ ~conns[last.conn].heartbeat
  /\ last.conn \notin SeqSet(storageSubscribers)
  /\ \E d \in ConnIds \ {last.conn} :
       d \in SeqSet(storageSubscribers) /\ conns[d].heartbeat

\* the latest step was the abort listener of a connection
Disconnected ==
  /\ last.conn # 0
  /\ last.req = "none"
  /\ last.event = None
  /\ ~conns[last.conn].open

\* C19: the disconnect of a stream client takes exactly its own subscriber
\* out of the set and stops exactly its own interval; the flag, the timer
\* handle, the pending timeout, the cache, the running cycle and every other
\* connection stay as they are; a cycle that runs at the disconnect ends.
C19_DisconnectIsLocal ==
  /\ [][\A c \in ConnIds :
          Abort(c)
            => /\ storageSubscribers' = SelectSeq(storageSubscribers, LAMBDA d : d # c)
               /\ ~conns'[c].open
               /\ ~conns'[c].heartbeat
               /\ \A d \in ConnIds \ {c} : conns'[d] = conns[d]
               /\ UNCHANGED <<backgroundJobRunning, backgroundJobTimer, timers,
                              storageCache, jobs>>]_vars
  /\ (Disconnected /\ backgroundJobRunning) ~> ~backgroundJobRunning

\* a client disconnected while a cycle started by a timeout was probing and
\* another client was subscribed
C19_Witness ==
  /\ Disconnected
  /\ backgroundJobRunning
  /\ jobs[1].pc = "batch"
  /\ backgroundJobTimer # NullTimer
  /\ storageSubscribers # <<>>
  /\ \A d \in SeqSet(storageSubscribers) : conns[d].heartbeat

\* C20: no step removes a remote from the cache, and no step changes the
\* record of a remote that is not in the list of the running cycle.
C20_NeverDeleted ==
  [][/\ DOMAIN storageCache \subseteq DOMAIN storageCache'
     /\ \A r \in DOMAIN storageCache :
          (\A i \in 1..Len(jobs) : r \notin SeqSet(jobs[i].remotes))
            => storageCache'[r] = storageCache[r]]_vars

\* a cycle whose list had lost remote 2 stored a new record for remote 1 and
\* ended; remote 2 still has its record
C20_Witness ==
  /\ last.op = "ProbeReply"
  /\ last.listed = <<1>>
  /\ last.changed
  /\ jobs = <<>>
  /\ 2 \in DOMAIN storageCache
  /\ storageCache[1] # storageCache[2]

CarriesMarker(reply) ==
  /\ reply.kind = "http"
  /\ \E m \in TokenMarkers : Includes(reply.error, m)

\* C21: a health check that probed the daemon reports token_expired whenever
\* the daemon answered with a non-success status and an error text holding
\* one of the authentication-failure markers, error for every other failure,
\* and healthy for a success.
C21_HealthClassification ==
  (last.req = "POST check" /\ last.reply # None) =>
    last.response.health =
      IF last.reply.kind = "ok" THEN "healthy"
      ELSE IF CarriesMarker(last.reply) THEN "token_expired"
      ELSE "error"

\* C22: every pending timeout, all of which were armed at the end of a
\* refresh cycle, was armed with a delay of five minutes.
C22_FiveMinuteIntervals ==
  \A t \in DOMAIN timers : Interval(timers[t]) = STORAGE_CHECK_INTERVAL

C24_ProbedOnce ==
  /\ [](\A i \in 1..Len(jobs) : \A r \in SeqSet(jobs[i].remotes) :
          /\ Occurrences(jobs[i].issued, r) <= 1
          /\ r \in jobs[i].failed =>
               r \notin jobs[i].inflight /\ Occurrences(jobs[i].issued, r) = 1)
  /\ [][(jobs # <<>> /\ jobs' = <<>> /\ last'.op = "ProbeReply")
          => \A r \in SeqSet(jobs[1].remotes) :
               Occurrences(jobs[1].issued, r) = 1]_vars

\* the second batch of a cycle is in flight and a probe of the first batch
\* has failed
C24_Witness ==
  /\ jobs # <<>>
  /\ jobs[1].pc = "batch"
  /\ Len(jobs[1].issued) > concurrentLimit
  /\ jobs[1].failed # {}
  /\ jobs[1].inflight # {}

DaemonOnlyStep(step) == step.req \in {"POST check", "POST refresh"}

\* C25: a health-check or reconnect request, whatever the daemon answers,
\* leaves the cache, the subscriber set, the in-progress flag, the timer
\* handle and the pending timeouts as they are; the cache gets a new record
\* only in the step of a probe reply of a refresh cycle.
C25_OperationsTouchNothing ==
  [][/\ DaemonOnlyStep(last') =>
          UNCHANGED <<storageCache, storageSubscribers, backgroundJobRunning,
                      backgroundJobTimer, timers, jobs>>
     /\ storageCache' # storageCache => last'.op = "ProbeReply"]_vars

\* a reconnect of remote 1 succeeded while the cache held the failure record
\* of remote 1 and no cycle was running
C25_Witness ==
  /\ last.req = "POST refresh"
  /\ last.remote = 1
  /\ last.response.success
  /\ 1 \in DOMAIN storageCache
  /\ Failed(storageCache[1])
  /\ ~backgroundJobRunning
  /\ Armed

\* C26: while probes of a batch are still in flight the cache is left as it
\* was when the batch started: a step after which the batch is incomplete
\* merges nothing.
C26_MergeAfterBatch ==
  [][(/\ jobs # <<>> /\ jobs' # <<>>
      /\ jobs'[1].pc = "batch"
      /\ jobs'[1].issued = jobs[1].issued
      /\ jobs'[1].inflight # {})
       => storageCache' = storageCache]_vars

\* C27: a manual-refresh POST handled while a cycle is running is refused by
\* the guard: the running activation stays the only one and stays as it is,
\* the pending timeout, if any, is cleared and the handle is null.  The step
\* that ends a cycle leaves exactly one timeout pending, the one the handle
\* refers to, and no step leads to a scheduler that is idle with no timeout
\* pending.
C27_RefreshWhileRunning ==
  /\ [][(last'.req = "POST storage" /\ backgroundJobRunning)
          => /\ last'.call = "refused"
             /\ jobs' = jobs
             /\ backgroundJobRunning'
             /\ backgroundJobTimer' = NullTimer
             /\ timers' = EmptyMap
             /\ last'.response = [status |-> 200, success |-> TRUE]]_vars
  /\ [][Len(jobs') < Len(jobs)
          => /\ Cardinality(DOMAIN timers') = 1
             /\ backgroundJobTimer' \in DOMAIN timers']_vars
  /\ [][(~backgroundJobRunning' /\ timers' = EmptyMap)
          => (~backgroundJobRunning /\ timers = EmptyMap)]_vars

\* a POST was refused while a cycle was probing and cancelled the timeout
\* that was pending
C27_Witness ==
  /\ last.req = "POST storage"
  /\ last.call = "refused"
  /\ last.cancelled
  /\ jobs # <<>>
  /\ jobs[1].pc = "batch"
  /\ backgroundJobTimer = NullTimer

Scheduled == backgroundJobRunning \/ timers # EmptyMap

\* C28: from the start of the first cycle on, in every state a cycle is
\* running or a timeout is pending, whatever requests, expiries and
\* disconnects come in between; while daemon calls return and pending
\* timeouts fire, a running cycle ends with a timeout pending and a pending
\* timeout leads to the start of a cycle.
C28_AlwaysScheduled ==
  /\ [][Scheduled => Scheduled']_vars
  /\ backgroundJobRunning ~> (~backgroundJobRunning /\ timers # EmptyMap)
  /\ (~backgroundJobRunning /\ timers # EmptyMap) ~> backgroundJobRunning

\* a timeout started a cycle while a subscriber was connected and the cache
\* held a record
C28_Witness ==
  /\ last.call = "started"
  /\ last.req = "none"
  /\ backgroundJobRunning
  /\ timers = EmptyMap
  /\ storageSubscribers # <<>>
  /\ storageCache # EmptyMap

\* the delays with which the scheduler is running: those of the pending
\* timeouts and those the running activations will arm with
Cadences ==
  {Interval(timers[t]) : t \in DOMAIN timers}
    \cup {Interval(jobs[i].copy) : i \in 1..Len(jobs)}

\* C29: the delay of the scheduler never changes: the pending timeouts and
\* running activations after a step have the delay of those before it.
C29_CadenceFixed ==
  [][\A a \in Cadences : \A b \in Cadences' : a = b]_vars

\* C30: the start-up sequence begins once, at the first load of the module;
\* it asks the daemon for its version at most maxRetries times, each time
\* after fewer than maxRetries failures; it calls runStorageCheckJob only in
\* the step of a successful answer and asks no more after it; after
\* maxRetries failures it stops for good; no step of it other than the
\* successful answer touches the flag, the handle, the timeouts or the
\* activations.
C30_StartupOnce ==
  /\ [](/\ init.retryCount <= maxRetries
        /\ init.pc = "unloaded" <=> ~backgroundJobInitialized
        /\ init.pc = "probe" => init.retryCount < maxRetries
        /\ init.pc = "started" => init.retryCount < maxRetries
        /\ init.pc = "failed" => init.retryCount = maxRetries)
  /\ [][/\ init'.pc = "delay" => init.pc \in {"unloaded", "delay"}
        /\ init.pc \in {"started", "failed"} => init' = init
        /\ init'.retryCount \in {init.retryCount, init.retryCount + 1}
        /\ init' # init =>
             IF init.pc = "probe" /\ init'.pc = "started"
               THEN last'.call \in {"started", "refused"}
               ELSE last'.call = "none" /\ UNCHANGED schedVars]_vars

\* the sixth version request failed and start-up gave up, while a request
\* had started a cycle of its own
C30_Witness ==
  /\ init.pc = "failed"
  /\ init.retryCount = maxRetries
  /\ backgroundJobInitialized
  /\ backgroundJobRunning

SameFigures(a, b) ==
  /\ DOMAIN a = DOMAIN b
  /\ \A r \in DOMAIN a :
       /\ a[r].total = b[r].total
       /\ a[r].used = b[r].used
       /\ a[r].error = b[r].error

\* C31: while no cycle is running, the data of the latest snapshot enqueued
\* on the stream of every subscriber of the set, its initial event or its
\* latest update, has the total, used and error of the cache for every
\* remote.
C31_NothingUnbroadcast ==
  ~backgroundJobRunning =>
    \A c \in SeqSet(storageSubscribers) \cap DOMAIN sinks.seen :
      SameFigures(sinks.seen[c], storageCache)

\* a subscriber that connected while the cache was empty got the record of
\* a cycle that has ended
C31_Witness ==
  /\ ~backgroundJobRunning
  /\ storageCache # EmptyMap
  /\ last.op = "ProbeReply"
  /\ last.delivered # <<>>
  /\ \E c \in SeqSet(storageSubscribers) \cap DOMAIN sinks.seen :
       sinks.seen[c] = storageCache /\ sinks.queue[c] # <<>>

\* C32: every connection whose keep-alive interval is running is in the
\* subscriber set.
C32_KeepAliveOnlySubscribed ==
  \A c \in ConnIds : conns[c].heartbeat => c \in SeqSet(storageSubscribers)

\* C33: a merge that reports changed = false leaves the cache, and so the
\* stored record with its free and lastUpdated, as it was; a stored record
\* is replaced, or a first one stored, only in the step of a merge of that
\* remote that reports changed = true, and then by the probe's result.
C33_UnchangedMergeKeepsRecord ==
  [][/\ (last'.op = "ProbeReply" /\ ~last'.changed) => storageCache' = storageCache
     /\ \A r \in DOMAIN storageCache' :
          (r \notin DOMAIN storageCache \/ storageCache'[r] # storageCache[r])
            => /\ last'.op = "ProbeReply"
               /\ last'.remote = r
               /\ last'.changed
               /\ storageCache'[r] = last'.result]_vars

\* a merge reported no change and the stored record kept its older stamp
\* and its free, both of which the probe's result had different
C33_Witness ==
  /\ last.op = "ProbeReply"
  /\ ~last.changed
  /\ last.remote \in DOMAIN storageCache
  /\ storageCache[last.remote] = last.old
  /\ storageCache[last.remote].lastUpdated < last.result.lastUpdated
  /\ storageCache[last.remote].free # last.result.free

\* C34: a file-listing request for a remote makes at most filesMaxRetries
\* calls; it answers success exactly when a call succeeded, after that call
\* and after failures only; otherwise it has made filesMaxRetries calls, all
\* failed, and answers 401 with tokenExpired = true if the answer to the
\* last call carried an authentication-failure marker and 500 with
\* tokenExpired = false if not, whatever the earlier answers were.
C34_FilesRetry ==
  (last.req = "GET files" /\ last.remote # NoRemote) =>
    LET n == last.attempts
        failed(k) == last.replies[k].kind # "ok"
    IN /\ n \in 1..filesMaxRetries
       /\ Len(last.replies) = n
       /\ \A k \in 1..(n - 1) : failed(k)
       /\ IF last.response.success
            THEN ~failed(n) /\ last.response.status = 200
            ELSE /\ n = filesMaxRetries
                 /\ failed(n)
                 /\ IF CarriesMarker(last.replies[n])
                      THEN /\ last.response.status = 401
                           /\ last.response.tokenExpired
                      ELSE /\ last.response.status = 500
                           /\ ~last.response.tokenExpired

ListFails(reply) == reply \in {ListFailed, ListMalformed}

\* C35: a remote-listing request makes at most remotesMaxRetries list calls;
\* it answers 500 with an empty list exactly when it made all of them and
\* all failed; otherwise it answers with the list of the first call that
\* succeeded, and remoteDetails has one entry for each listed remote and no
\* other, with type "unknown" for every remote whose configuration could
\* not be fetched.
C35_RemotesRetry ==
  last.req = "GET remotes" =>
    LET n == last.attempts
    IN /\ n \in 1..remotesMaxRetries
       /\ Len(last.replies) = n
       /\ \A k \in 1..(n - 1) : ListFails(last.replies[k])
       /\ IF n = remotesMaxRetries /\ ListFails(last.replies[n])
            THEN /\ last.response.status = 500
                 /\ ~last.response.success
                 /\ last.response.remotes = <<>>
            ELSE /\ last.response.status = 200
                 /\ last.response.success
                 /\ last.response.remotes = RemoteList(last.replies[n])
                 /\ DOMAIN last.response.remoteDetails
                      = SeqSet(last.response.remotes)
                 /\ \A k \in 1..Len(last.response.remotes) :
                      last.configs[k].kind # "ok" =>
                        last.response.remoteDetails[last.response.remotes[k]]
                          = "unknown"

\* the third list call succeeded with two remotes; the configuration of the
\* first could not be fetched, that of the second could
C35_Witness ==
  /\ last.req = "GET remotes"
  /\ last.attempts = remotesMaxRetries
  /\ last.response.success
  /\ Len(last.response.remotes) = 2
  /\ last.configs[1].kind = "timeout"
  /\ last.response.remoteDetails[1] = "unknown"
  /\ last.response.remoteDetails[2] = "drive"

MatchedPage(step) == step.req = "GET page" /\ matcher(step.path)

\* A token with one of the flags that force the change.
Flagged(token) ==
  token # None /\ (token.mustChangePassword \/ token.isFirstLogin)

\* a page request on a matched path other than /auth/change-password that
\* came with a flagged token was redirected to /auth/change-password
ForcedToChange(step) ==
  (MatchedPage(step) /\ Flagged(step.token) /\ step.path # AuthChangePassword)
    => step.response = Redirect(AuthChangePassword)

\* C37 (as the spec words it): a page request on a matched path with a token
\* that has mustChangePassword or isFirstLogin set is redirected to
\* /auth/change-password unless the path is /auth/change-password itself,
\* and a request without a token is authorised for no path but /auth/login.
C37_OnlyLoginPage ==
  /\ ForcedToChange(last)
  /\ (MatchedPage(last) /\ last.token = None /\ last.response # SignInPage)
       => last.path = AuthLogin

\* C37: a page request on a matched path with a token that has
\* mustChangePassword or isFirstLogin set is redirected to
\* /auth/change-password unless the path is /auth/change-password itself,
\* and a request without a token is authorised exactly for the paths that
\* begin with /auth/login.
C37_ForcedPasswordChange ==
  /\ ForcedToChange(last)
  /\ (MatchedPage(last) /\ last.token = None)
       => (last.response # SignInPage <=> IsPrefix(AuthLogin, last.path))

\* a session whose token has isFirstLogin alone asked for / and was sent to
\* /auth/change-password
C37_Witness ==
  /\ last.req = "GET page"
  /\ last.path = Root
  /\ last.token # None
  /\ last.token.isFirstLogin /\ ~last.token.mustChangePassword
  /\ last.response = Redirect(AuthChangePassword)

====
